---------------------------- MODULE Spec2Model ----------------------------
(***************************************************************************)
(* A model of the image utility bot: the aiogram conversation handlers    *)
(* (handle_image, handle_conversion_choice, handle_size_choice), the FSM  *)
(* storage they share, the download directory, and the processing         *)
(* pipeline (ImageConverter / BackgroundRemover / ImageHandler).           *)
(*                                                                         *)
(* Two variants of the bot live in the repository: the modular one        *)
(* (src/bot/image_utility_bot.py with src/enums/image_size.py) and the    *)
(* single-file one (src/bot/utility_master_bot.py).  They differ in two   *)
(* places only, the members of ImageSize and the place where              *)
(* handle_size_choice reads the session data; the variable `variant`      *)
(* selects which of the two is running.                                    *)
(*                                                                         *)
(* Handlers are coroutines on one asyncio event loop: a handler runs      *)
(* without interruption until it suspends at an await on the transport    *)
(* (message.answer, bot.download_file, wait_msg.delete).  The variable    *)
(* `running` names the handler that holds the loop; awaits on the memory  *)
(* FSM storage and on cleanup_files never suspend.                         *)
(***************************************************************************)
EXTENDS Integers, Sequences, FiniteSets, TLC

VARIABLES
    variant,    \* which bot class is deployed: "modular" or "monolith"
    fsm,        \* FSM state of each conversation (MemoryStorage)
    data,       \* session data of each conversation (MemoryStorage)
    disk,       \* the downloads/ directory: path -> content
    task,       \* the handler coroutines, one record per slot
    running     \* the coroutine holding the event loop, or NoTask

vars == <<variant, fsm, data, disk, task, running>>

-----------------------------------------------------------------------------
(* Bounds of the model                                                     *)

\* every width and height from 1 to MaxSmallDim is an input of the resize
MaxSmallDim == 6

\* a text carries up to MaxPad whitespace characters on each side
MaxPad == 1

-----------------------------------------------------------------------------
(* Identities                                                              *)

Variants == {"modular", "monolith"}
Conv == {"A", "B"}
TaskOrder == <<"t1", "t2">>
Tasks == {TaskOrder[i] : i \in DOMAIN TaskOrder}
NoTask == "none"
Absent == "absent"      \* a key a dict does not hold / Python's None
Unbound == "unbound"    \* a local variable not yet assigned
None == <<>>            \* Python's None where the value is a tuple or array

-----------------------------------------------------------------------------
(* ImageSize: the enum and its dimension table                             *)

\* ImageSize of src/bot/utility_master_bot.py: member name -> value
ImageSizeMonolith ==
    [ORIGINAL |-> "original", SMALL |-> "720p", MEDIUM |-> "1080p",
     LARGE |-> "1440p"]

\* ImageSize of src/enums/image_size.py: member name -> value
ImageSizeModular ==
    [ORIGINAL |-> "original", SMALL |-> "720p", MEDIUM |-> "1080p",
     LARGE |-> "1440p", HUGE |-> "5000"]

ImageSize(v) == IF v = "modular" THEN ImageSizeModular ELSE ImageSizeMonolith

\* the members of the enum, by name
Members(v) == DOMAIN ImageSize(v)

\* a table without an entry for LARGE; C21 must tell it from get_dimensions
get_dimensions_partial(v, size) ==
    CASE size = "SMALL"  -> <<1280, 720>>
      [] size = "MEDIUM" -> <<1920, 1080>>
      [] size = "HUGE" /\ v = "modular" -> <<5000, 5000>>
      [] OTHER -> None

\* ImageSize.get_dimensions: (width, height), or None from dict.get
get_dimensions(v, size) ==
    CASE size = "SMALL"  -> <<1280, 720>>
      [] size = "MEDIUM" -> <<1920, 1080>>
      [] size = "LARGE"  -> <<2560, 1440>>
      [] size = "HUGE" /\ v = "modular" -> <<5000, 5000>>
      [] OTHER -> None

-----------------------------------------------------------------------------
(* Decoded images.  A numpy array is modelled by its shape: <<h, w>> for a  *)
(* single-channel image (cv2.imread with IMREAD_UNCHANGED and PIL return   *)
(* grayscale sources as 2-dimensional arrays), <<h, w, c>> otherwise.      *)

Height(shape) == shape[1]
Width(shape) == shape[2]
Channels(shape) == IF Len(shape) = 2 THEN 1 ELSE shape[3]

\* shape[-1], the last axis
LastAxis(shape) == shape[Len(shape)]

\* the outcome of an OpenCV call that raises cv2.error: no array
CvError == <<>>

-----------------------------------------------------------------------------
(* Python float arithmetic of resize_image.  `aspect = width / height` is  *)
(* the IEEE-754 double nearest to w/h, and int(new_width / aspect) and     *)
(* int(new_height * aspect) round once more before truncating.  An exact   *)
(* result that is no integer lies at least 1/w (1/h) from the next         *)
(* integer, far more than the rounding error, so truncation gives its      *)
(* floor.  An exact result that is an integer E comes out as E or, when    *)
(* the rounded value falls below E, as E - 1.  The operators below decide  *)
(* that case in integers that fit TLC's 32 bits.                           *)

RECURSIVE BitLen(_)
\* the number of binary digits of n
BitLen(n) == IF n = 0 THEN 0 ELSE 1 + BitLen(n \div 2)

IsPow2(n) == n > 0 /\ 2^(BitLen(n) - 1) = n

RECURSIVE LogUp(_, _, _)
\* the largest j >= from with 2^j * h <= w   (w >= h)
LogUp(w, h, from) ==
    IF 2^(from + 1) * h <= w THEN LogUp(w, h, from + 1) ELSE from

RECURSIVE LogDown(_, _, _)
\* the least j >= from with w * 2^j >= h   (w <= h)
LogDown(w, h, from) ==
    IF w * 2^from < h THEN LogDown(w, h, from + 1) ELSE from

\* floor(log2(w / h)): the binary exponent of the double w / h
Log2Floor(w, h) == IF w >= h THEN LogUp(w, h, 0) ELSE 0 - LogDown(w, h, 0)

RECURSIVE PowMod2(_, _)
\* 2^k mod h
PowMod2(k, h) == IF k = 0 THEN 1 % h ELSE (2 * PowMod2(k - 1, h)) % h

\* The double nearest to w/h is M / 2^k with k = 52 - Log2Floor(w, h) and
\* M = round(w * 2^k / h), a 53-bit integer.  RoundErr is M * h - w * 2^k:
\* negative when the double lies below w/h, positive when above, 0 if exact.
RoundErr(w, h) ==
    LET k == 52 - Log2Floor(w, h)
        rho == ((w % h) * PowMod2(k, h)) % h
    IN  IF rho = 0 THEN 0
        ELSE IF 2 * rho < h THEN 0 - rho
        ELSE h - rho

\* int(n / aspect) with aspect = float(w) / float(h), for w > h
TruncDiv(n, w, h) ==
    IF (n * h) % w # 0 THEN (n * h) \div w
    ELSE LET E == (n * h) \div w
             e == RoundErr(w, h)
             j == Log2Floor(w, h)
             p == IF IsPow2(E) THEN 1 ELSE 0
             \* the quotient n / aspect is E / (1 + e / (w * 2^k)); it rounds to
             \* a double below E when E - quotient exceeds half the spacing
             \* of the doubles just below E
             below == e > 0 /\ (E * 2^j) * e * 2^(2 + p) > w * 2^BitLen(E)
         IN  IF below THEN E - 1 ELSE E

\* int(n * aspect) with aspect = float(w) / float(h), for w <= h
TruncMul(n, w, h) ==
    IF (n * w) % h # 0 THEN (n * w) \div h
    ELSE LET E == (n * w) \div h
             e == RoundErr(w, h)
             j == 0 - Log2Floor(w, h)
             p == IF IsPow2(E) THEN 1 ELSE 0
             x == BitLen(E) + j - 2 - p
             \* the product n * M is E * 2^k + D; it rounds to a double below
             \* E when -D exceeds half the spacing of the doubles below E
             D == IF e < 0 THEN (n * (0 - e)) \div h ELSE 0
             below == e < 0
                      /\ D * 2^(IF x < 0 THEN 0 - x ELSE 0)
                           > 2^(IF x > 0 THEN x ELSE 0)
         IN  IF below THEN E - 1 ELSE E

Min(a, b) == IF a <= b THEN a ELSE b

-----------------------------------------------------------------------------
(* ImageHandler.resize_image                                               *)

\* the (new_width, new_height) handed to cv2.resize
NewDims(width, height, target_width, target_height) ==
    IF width > height
    THEN LET new_width == Min(width, target_width)
         IN  <<new_width, TruncDiv(new_width, width, height)>>
    ELSE LET new_height == Min(height, target_height)
         IN  <<TruncMul(new_height, width, height), new_height>>

\* cv2.resize(image, (new_width, new_height)): the shape with the two sizes
\* replaced, the channels kept; cv2.error when a requested size is 0
CvResize(shape, dsize) ==
    IF dsize[1] <= 0 \/ dsize[2] <= 0 THEN CvError
    ELSE [shape EXCEPT ![1] = dsize[2], ![2] = dsize[1]]

\* resize_image(image, target_size) in the variant v
resize_image(v, shape, target_size) ==
    IF target_size = "ORIGINAL" THEN shape
    ELSE LET target_dims == get_dimensions(v, target_size)
         IN  IF target_dims = None THEN shape
             ELSE CvResize(shape,
                           NewDims(Width(shape), Height(shape),
                                   target_dims[1], target_dims[2]))

-----------------------------------------------------------------------------
(* ImageConverter: the alpha-channel branch of process                     *)

SUPPORTED_FORMATS == {"jpg", "jpeg", "png", "webp", "bmp", "tiff"}

\* cv2.cvtColor(image, COLOR_BGR2BGRA): needs a 3-channel input
BGR2BGRA(shape) ==
    IF Len(shape) = 3 /\ shape[3] = 3 THEN [shape EXCEPT ![3] = 4] ELSE CvError

\* cv2.cvtColor(image, COLOR_BGRA2BGR): needs a 4-channel input
BGRA2BGR(shape) ==
    IF Len(shape) = 3 /\ shape[3] = 4 THEN [shape EXCEPT ![3] = 3] ELSE CvError

\* a converter without the alpha branch; C9 must tell it from HandleAlpha
HandleAlphaSkipped(format_type, shape) == shape

\* "Handle alpha channel": the image after the if / elif of process
HandleAlpha(format_type, shape) ==
    IF format_type = "png" /\ LastAxis(shape) = 3 THEN BGR2BGRA(shape)
    ELSE IF format_type # "png" /\ Len(shape) > 2 /\ LastAxis(shape) = 4
         THEN BGRA2BGR(shape)
    ELSE shape

-----------------------------------------------------------------------------
(* Messages.  A text is a sequence of symbols: " " is a whitespace         *)
(* character, any other symbol a run of non-whitespace characters.         *)

\* the words users send here: two of the four menu tokens, two of the size
\* labels ("5000" is a label of the modular bot only), a word that is neither,
\* and the two commands
Words == {"1", "4", "720p", "5000", "x", "/start", "/help"}

\* the words that also come with whitespace around them
PaddedWords == {"1", "720p"}

RECURSIVE Pad(_)
Pad(n) == IF n = 0 THEN <<>> ELSE <<" ">> \o Pad(n - 1)

Texts ==
    {<<w>> : w \in Words}
    \cup {Pad(l) \o <<w>> \o Pad(r) :
             w \in PaddedWords, l \in 0..MaxPad, r \in 0..MaxPad}
    \cup {Pad(l) : l \in 1..MaxPad}
    \cup {<<"1", " ", "720p">>}

RECURSIVE LStrip(_)
LStrip(s) == IF s # <<>> /\ Head(s) = " " THEN LStrip(Tail(s)) ELSE s

RECURSIVE RStrip(_)
RStrip(s) ==
    IF s # <<>> /\ s[Len(s)] = " " THEN RStrip(SubSeq(s, 1, Len(s) - 1)) ELSE s

\* str.strip()
Strip(s) == RStrip(LStrip(s))

\* the uploads a user can send: a photo (Telegram re-encodes photos as JPEG)
\* or a document with its declared MIME type, split at "/"; content is the
\* array the file decodes to, None for a file no decoder reads
Uploads ==
    { [kind |-> "photo", file_id |-> "p1", mime |-> None,
       content |-> <<2000, 3000, 3>>],
      [kind |-> "document", file_id |-> "d2", mime |-> <<"application", "pdf">>,
       content |-> None],
      [kind |-> "document", file_id |-> "d3", mime |-> <<"image", "GIF">>,
       content |-> <<4, 4, 3>>],
      [kind |-> "document", file_id |-> "d4", mime |-> None,
       content |-> None] }

TextMessage(s) ==
    [kind |-> "text", file_id |-> "", mime |-> None, content |-> None,
     text |-> s]

UploadMessage(u) ==
    [kind |-> u.kind, file_id |-> u.file_id, mime |-> u.mime,
     content |-> u.content, text |-> None]

\* a message with neither text nor photo nor document (a sticker, a location)
OtherMessage ==
    [kind |-> "other", file_id |-> "", mime |-> None, content |-> None,
     text |-> None]

NoMessage ==
    [kind |-> "none", file_id |-> "", mime |-> None, content |-> None,
     text |-> None]

Messages ==
    {TextMessage(s) : s \in Texts} \cup {UploadMessage(u) : u \in Uploads}
    \cup {OtherMessage}

\* str.lower() on the MIME subtypes that occur
Lower(w) == CASE w = "GIF" -> "gif" [] OTHER -> w

\* str.replace("jpeg", "jpg") on the MIME subtypes that occur
ReplaceJpeg(w) == CASE w = "jpeg" -> "jpg" [] OTHER -> w

\* mime_type.startswith("image/")
StartsWithImage(mime) == Len(mime) >= 2 /\ mime[1] = "image"

\* download_file: downloads/{file_id}.{ext}
DownloadPath(m) ==
    <<m.file_id,
      IF m.kind = "photo" THEN "jpg" ELSE ReplaceJpeg(m.mime[Len(m.mime)])>>

\* send_processed_image: downloads/temp_output.{format_type}
TempPath(format_type) == <<"temp_output", format_type>>

\* Command("start") / Command("help"): the first word of the text
IsCommand(m, cmd) ==
    m.kind = "text" /\ LStrip(m.text) # <<>> /\ Head(LStrip(m.text)) = cmd

\* The handler the dispatcher picks: the first registered one whose filter
\* passes, in the order of _configure_handlers.
Route(m, state) ==
    CASE IsCommand(m, "/start") -> "start"
      [] IsCommand(m, "/help") -> "help_command"
      [] m.kind \in {"photo", "document"} -> "handle_image"
      [] state = "selecting_action" -> "handle_conversion_choice"
      [] state = "selecting_size" -> "handle_size_choice"
      [] OTHER -> "none"

\* a menu whose background removal encodes as WEBP; C11 must tell it from
\* handlers
handlersRemoverWebp ==
    [x \in {"1", "2", "3", "4"} |->
        CASE x = "1" -> [class |-> "ImageConverter", format_type |-> "png"]
          [] x = "2" -> [class |-> "ImageConverter", format_type |-> "jpg"]
          [] x = "3" -> [class |-> "ImageConverter", format_type |-> "webp"]
          [] x = "4" -> [class |-> "BackgroundRemover", format_type |-> "webp"]]

\* self.handlers: menu token -> what the lambda builds
handlers ==
    [x \in {"1", "2", "3", "4"} |->
        CASE x = "1" -> [class |-> "ImageConverter", format_type |-> "png"]
          [] x = "2" -> [class |-> "ImageConverter", format_type |-> "jpg"]
          [] x = "3" -> [class |-> "ImageConverter", format_type |-> "webp"]
          [] x = "4" -> [class |-> "BackgroundRemover", format_type |-> "png"]]

\* user_choice as a dict key: the stripped text when it is one word
Key(s) == IF Len(s) = 1 THEN s[1] ELSE ""

\* next(size for size in ImageSize if size.value == size_choice), or
\* Absent for StopIteration
SizeOf(v, s) ==
    IF \E n \in Members(v) : ImageSize(v)[n] = Key(s)
    THEN CHOOSE n \in Members(v) : ImageSize(v)[n] = Key(s)
    ELSE Absent

-----------------------------------------------------------------------------
(* State                                                                   *)

\* FSMContext data of a conversation after clear(): an empty dict
EmptyData == [file_path |-> None, format_choice |-> Absent]

\* a coroutine slot with no handler in it
IdleTask ==
    [pc |-> "idle", handler |-> "none", conv |-> "none", msg |-> NoMessage,
     sent |-> {}, lost |-> {}, exc |-> "none",
     bound |-> {}, file_path |-> None, format_choice |-> Absent,
     target_size |-> Unbound, format_type |-> "", image |-> None,
     written |-> FALSE]

\* a file of the directory: its path, the array it decodes to (None if no
\* decoder reads it), and for an encoded output its format and the source
\* it came from
File(path, image, format_type, source) ==
    [path |-> path, image |-> image, format_type |-> format_type,
     source |-> source]

\* os.path.exists
Exists(d, path) == \E f \in d : f.path = path

\* os.remove on directory d
Removed(d, path) == {f \in d : f.path # path}

\* cv2.imwrite / bot.download_file on directory d: create or overwrite
Written(d, file) == Removed(d, file.path) \cup {file}

\* what cv2.imwrite can leave behind: the encoded file, a truncated file
\* (the write broke off), or nothing (the encoder refused)
Encodes == {"written", "partial", "nothing"}

\* cv2.imwrite(temp_path, image, ...) on directory d with outcome encoded
Imwrite(d, file, encoded) ==
    CASE encoded = "written" -> Written(d, file)
      [] encoded = "partial" -> Written(d, [file EXCEPT !.image = None])
      [] OTHER -> d

\* a cleanup that removes nothing; C2 must tell it from cleanup_files
cleanup_files_skipped(d, path) == d

\* ImageHandler.cleanup_files(path) on directory d: os.remove when the path
\* is set and exists
cleanup_files(d, path) ==
    IF path # None /\ Exists(d, path) THEN Removed(d, path) ELSE d

Init ==
    /\ variant \in Variants
    /\ fsm = [c \in Conv |-> "none"]
    /\ data = [c \in Conv |-> EmptyData]
    /\ disk = {}
    /\ task = [t \in Tasks |-> IdleTask]
    /\ running = NoTask

-----------------------------------------------------------------------------
(* The event loop.  An action is what a coroutine does from the point it   *)
(* gets the loop to its next await on the transport, or to its return.     *)

\* the coroutine t runs on and keeps the loop
Step(t, new) ==
    /\ task' = [task EXCEPT ![t] = new]
    /\ running' = t

\* the coroutine t suspends at an await on the transport
Suspend(t, new) ==
    /\ task' = [task EXCEPT ![t] = new]
    /\ running' = NoTask

\* t is suspended at pc and the loop is free to resume it
Resumes(t, pc) == running = NoTask /\ task[t].pc = pc

\* t holds the loop at pc
At(t, pc) == running = t /\ task[t].pc = pc

\* message.answer(...) of kind k went through / raised
Sent(r, k) == [r EXCEPT !.sent = @ \cup {k}]
Lost(r, k) == [r EXCEPT !.lost = @ \cup {k}, !.exc = "TransportError"]

\* the local variable x of the coroutine has been assigned
Bound(r, x) == x \in r.bound

\* slots are interchangeable: a new update takes the first free one
FirstIdle ==
    LET free == {i \in DOMAIN TaskOrder : task[TaskOrder[i]].pc = "idle"}
    IN  TaskOrder[CHOOSE i \in free : \A k \in free : i <= k]

\* The dispatcher hands update m of conversation c to handler h: the loop is
\* free, a slot is free, and h is the first handler whose filter passes.
Dispatched(c, m, h) ==
    /\ running = NoTask
    /\ \E t \in Tasks : task[t].pc = "idle"
    /\ Route(m, fsm[c]) = h

\* the coroutine the dispatcher starts for the update
NewTask(c, m, h) ==
    [IdleTask EXCEPT !.pc = h, !.handler = h, !.conv = c, !.msg = m]

\* the handler has returned (or its exception has reached the dispatcher,
\* which logs it): the slot is free again
Return(t) ==
    /\ At(t, "return")
    /\ Suspend(t, IdleTask)
    /\ UNCHANGED <<variant, fsm, data, disk>>

-----------------------------------------------------------------------------
(* start, help_command                                                     *)

\* await message.answer(welcome / HELP_MESSAGE)
Command(c, m) ==
    /\ \/ Dispatched(c, m, "start")
       \/ Dispatched(c, m, "help_command")
    /\ Suspend(FirstIdle,
               [NewTask(c, NoMessage, Route(m, fsm[c])) EXCEPT
                   !.pc = "command_wait"])
    /\ UNCHANGED <<variant, fsm, data, disk>>

CommandSent(t) ==
    /\ Resumes(t, "command_wait")
    /\ \/ Step(t, [Sent(task[t], "info") EXCEPT !.pc = "return"])
       \/ Step(t, [Lost(task[t], "info") EXCEPT !.pc = "return"])
    /\ UNCHANGED <<variant, fsm, data, disk>>

-----------------------------------------------------------------------------
(* handle_image                                                            *)

\* document checks that let every declared type through; C7 must tell
\* them from CheckUpload
CheckUploadLax(m) ==
    IF m.kind = "document" /\ m.mime = None THEN "raise" ELSE "accept"

\* the document checks: "accept", "reject" or "raise" (None.startswith)
CheckUpload(m) ==
    IF m.kind # "document" THEN "accept"
    ELSE IF m.mime = None THEN "raise"
    ELSE IF ~StartsWithImage(m.mime) THEN "reject"
    ELSE IF Lower(m.mime[Len(m.mime)]) \notin SUPPORTED_FORMATS THEN "reject"
    ELSE "accept"

\* from the entry to the first await: the rejection, the error message of
\* the outer except, or the progress notice
HiCheck(c, m) ==
    LET r == NewTask(c, m, "handle_image")
        verdict == CheckUpload(m)
    IN
    /\ Dispatched(c, m, "handle_image")
    /\ IF verdict = "raise"
       THEN Suspend(FirstIdle, [r EXCEPT !.pc = "hi_error_wait",
                                         !.msg = NoMessage,
                                         !.exc = "AttributeError"])
       ELSE IF verdict = "reject"
       THEN Suspend(FirstIdle, [r EXCEPT !.pc = "hi_reject_wait"])
       ELSE Suspend(FirstIdle, [r EXCEPT !.pc = "hi_wait_wait"])
    /\ UNCHANGED <<variant, fsm, data, disk>>

\* the rejection was sent: return; or the send raised: outer except
HiRejected(t) ==
    /\ Resumes(t, "hi_reject_wait")
    /\ \/ Step(t, [Sent(task[t], "reject") EXCEPT !.pc = "return"])
       \/ Suspend(t, [Lost(task[t], "reject") EXCEPT !.pc = "hi_error_wait"])
    /\ UNCHANGED <<variant, fsm, data, disk>>

\* the progress notice was sent: await self.download_file(file)
HiWaitSent(t) ==
    /\ Resumes(t, "hi_wait_wait")
    /\ \/ Suspend(t, [Sent(task[t], "wait") EXCEPT !.pc = "hi_download_wait"])
       \/ Suspend(t, [Lost(task[t], "wait") EXCEPT !.pc = "hi_error_wait",
                                                   !.msg = NoMessage])
    /\ UNCHANGED <<variant, fsm, data, disk>>

\* await state.update_data(file_path=file_path)
StoreFilePath(c, path) == data' = [data EXCEPT ![c].file_path = path]

\* a handler that stores the path before it tests it; C8 must tell it from
\* DownloadFailure
DownloadFailureStored(t, r) ==
    /\ Suspend(t, [r EXCEPT !.pc = "hi_delete_wait", !.msg = NoMessage,
                            !.bound = {"file_path"}, !.file_path = None,
                            !.exc = "ProcessingError"])
    /\ StoreFilePath(r.conv, DownloadPath(r.msg))
    /\ UNCHANGED disk

\* download_file came back with None (get_file or download_file raised):
\* `if not file_path: raise ProcessingError`, and the finally awaits
\* wait_msg.delete()
DownloadFailure(t, r) ==
    /\ Suspend(t, [r EXCEPT !.pc = "hi_delete_wait", !.msg = NoMessage,
                            !.bound = {"file_path"}, !.file_path = None,
                            !.exc = "ProcessingError"])
    /\ UNCHANGED <<data, disk>>

\* download_file came back: with the path, update_data(file_path=...) and
\* await message.answer("Choose operation:"); with None, the failure above.
\* The upload is not read again.
HiDownloaded(t) ==
    LET r == task[t]
        path == DownloadPath(r.msg)
    IN
    /\ Resumes(t, "hi_download_wait")
    /\ \/ /\ disk' = Written(disk, File(path, r.msg.content, "", None))
          /\ StoreFilePath(r.conv, path)
          /\ Suspend(t, [r EXCEPT !.pc = "hi_menu_wait", !.msg = NoMessage,
                                  !.bound = {"file_path"},
                                  !.file_path = path])
       \/ DownloadFailure(t, r)
    /\ UNCHANGED <<variant, fsm>>

\* the menu was sent: set_state(selecting_action); or the send raised; either
\* way the finally awaits wait_msg.delete()
HiMenuSent(t) ==
    LET r == task[t] IN
    /\ Resumes(t, "hi_menu_wait")
    /\ \/ /\ fsm' = [fsm EXCEPT ![r.conv] = "selecting_action"]
          /\ Suspend(t, [Sent(r, "menu") EXCEPT !.pc = "hi_delete_wait"])
       \/ /\ Suspend(t, [Lost(r, "menu") EXCEPT !.pc = "hi_delete_wait"])
          /\ UNCHANGED fsm
    /\ UNCHANGED <<variant, data, disk>>

\* wait_msg.delete() came back: a pending exception (or the one delete raised)
\* goes to the outer except, which awaits message.answer(error_msg)
HiDeleted(t) ==
    LET r == task[t] IN
    /\ Resumes(t, "hi_delete_wait")
    /\ \/ IF r.exc = "none"
          THEN Step(t, [r EXCEPT !.pc = "return"])
          ELSE Suspend(t, [r EXCEPT !.pc = "hi_error_wait"])
       \/ Suspend(t, [r EXCEPT !.pc = "hi_error_wait",
                               !.exc = "TransportError"])
    /\ UNCHANGED <<variant, fsm, data, disk>>

\* the error message of the outer except was sent, or its send raised and
\* the exception leaves the handler
HiErrorSent(t) ==
    /\ Resumes(t, "hi_error_wait")
    /\ \/ Step(t, [Sent(task[t], "error") EXCEPT !.pc = "return",
                                                 !.exc = "none"])
       \/ Step(t, [Lost(task[t], "error") EXCEPT !.pc = "return"])
    /\ UNCHANGED <<variant, fsm, data, disk>>

-----------------------------------------------------------------------------
(* handle_conversion_choice                                                *)

\* a handler that validates the choice and forgets it; C6 must tell it from
\* StoreChoice
StoreChoiceSkipped(c, user_choice) == data' = data

\* await state.update_data(format_choice=user_choice)
StoreChoice(c, user_choice) ==
    data' = [data EXCEPT ![c].format_choice = user_choice]

\* strip and look up the choice; a valid one is stored with update_data and
\* the size keyboard is sent
HcCheck(c, m) ==
    LET user_choice == Key(Strip(m.text))
        r == NewTask(c, m, "handle_conversion_choice")
    IN
    /\ Dispatched(c, m, "handle_conversion_choice")
    /\ IF m.kind # "text"
       THEN \* message.text is None: AttributeError, caught by the except
            /\ Suspend(FirstIdle, [r EXCEPT !.pc = "hc_error_wait",
                                            !.msg = NoMessage,
                                            !.exc = "AttributeError"])
            /\ UNCHANGED data
       ELSE IF user_choice \notin DOMAIN handlers
       THEN /\ Suspend(FirstIdle, [r EXCEPT !.pc = "hc_reject_wait"])
            /\ UNCHANGED data
       ELSE /\ StoreChoice(c, user_choice)
            /\ Suspend(FirstIdle, [r EXCEPT !.pc = "hc_sizes_wait",
                                            !.format_choice = user_choice])
    /\ UNCHANGED <<variant, fsm, disk>>

\* the rejection was sent: return; or the send raised: except.  The text
\* is not read again.
HcRejected(t) ==
    /\ Resumes(t, "hc_reject_wait")
    /\ \/ Step(t, [Sent(task[t], "reject") EXCEPT !.pc = "return",
                                                  !.msg = NoMessage])
       \/ Suspend(t, [Lost(task[t], "reject") EXCEPT !.pc = "hc_error_wait",
                                                     !.msg = NoMessage])
    /\ UNCHANGED <<variant, fsm, data, disk>>

\* the size keyboard was sent: set_state(selecting_size); or the send raised
HcSizesSent(t) ==
    LET r == task[t] IN
    /\ Resumes(t, "hc_sizes_wait")
    /\ \/ /\ fsm' = [fsm EXCEPT ![r.conv] = "selecting_size"]
          /\ Step(t, [Sent(r, "sizes") EXCEPT !.pc = "return",
                                              !.msg = NoMessage])
       \/ /\ Suspend(t, [Lost(r, "sizes") EXCEPT !.pc = "hc_error_wait",
                                                 !.msg = NoMessage])
          /\ UNCHANGED fsm
    /\ UNCHANGED <<variant, data, disk>>

HcErrorSent(t) ==
    /\ Resumes(t, "hc_error_wait")
    /\ \/ Step(t, [Sent(task[t], "error") EXCEPT !.pc = "return",
                                                 !.exc = "none"])
       \/ Step(t, [Lost(task[t], "error") EXCEPT !.pc = "return"])
    /\ UNCHANGED <<variant, fsm, data, disk>>

-----------------------------------------------------------------------------
(* ImageConverter.process and BackgroundRemover.process up to the call of  *)
(* send_processed_image.  Nothing in them suspends.  The result is the     *)
(* coroutine's record: at "send_processed_image" with the image to send,   *)
(* or at "pr_except" with the exception that process catches.              *)

\* a process that notes the exception and goes on to send; C13 must tell it
\* from Raised
RaisedAndSent(r, exc) == [r EXCEPT !.pc = "send_processed_image", !.exc = exc]

Raised(r, exc) == [r EXCEPT !.pc = "pr_except", !.exc = exc]

\* cv2.imread / PIL.Image.open of a path in directory d: the decoded array,
\* None when the file is missing or undecodable
Decode(d, path) ==
    IF Exists(d, path) THEN (CHOOSE f \in d : f.path = path).image ELSE None

\* ImageConverter.process: imread, the alpha branch, resize_image
ConverterProcess(v, d, r) ==
    LET image == Decode(d, r.file_path)
        alpha == HandleAlpha(r.format_type, image)
        resized == resize_image(v, alpha, r.target_size)
    IN  IF image = None THEN Raised(r, "ProcessingError")
        ELSE IF alpha = CvError THEN Raised([r EXCEPT !.image = image],
                                            "cv2.error")
        ELSE IF resized = CvError THEN Raised([r EXCEPT !.image = alpha],
                                              "cv2.error")
        ELSE [r EXCEPT !.pc = "send_processed_image", !.image = resized]

\* BackgroundRemover.process: Image.open, remove (rembg is opaque: it returns
\* an RGBA image of the same size when `extracted`, raises otherwise),
\* np.array, resize_image unless the size is ORIGINAL
RemoverProcess(v, d, r, extracted) ==
    LET img == Decode(d, r.file_path)
        no_bg == <<Height(img), Width(img), 4>>
        resized == IF r.target_size # "ORIGINAL"
                   THEN resize_image(v, no_bg, r.target_size)
                   ELSE no_bg
    IN  IF img = None THEN Raised(r, "UnidentifiedImageError")
        ELSE IF ~extracted THEN Raised([r EXCEPT !.image = img],
                                       "ExtractionError")
        ELSE IF resized = CvError THEN Raised([r EXCEPT !.image = no_bg],
                                              "cv2.error")
        ELSE [r EXCEPT !.pc = "send_processed_image", !.image = resized]

\* handler = self.handlers[format_choice](); handler.process(...)
Process(v, d, r, extracted) ==
    IF handlers[r.format_choice].class = "ImageConverter"
    THEN ConverterProcess(v, d, r)
    ELSE RemoverProcess(v, d, r, extracted)

-----------------------------------------------------------------------------
(* handle_size_choice                                                      *)

\* a clear that empties the whole storage; C19 must tell it from Clear
ClearStorage(c) ==
    /\ fsm' = [k \in Conv |-> "none"]
    /\ data' = [k \in Conv |-> EmptyData]

\* state.clear()
Clear(c) ==
    /\ fsm' = [fsm EXCEPT ![c] = "none"]
    /\ data' = [data EXCEPT ![c] = EmptyData]

\* finally: state.clear(), then cleanup_files(data["file_path"]) if the key
\* is there.  In the single-file bot `data` is unbound when the size was
\* rejected or the text was missing: the test raises UnboundLocalError after
\* the clear.  Then the handler returns.
HsFinally(t, r) ==
    /\ Clear(r.conv)
    /\ IF Bound(r, "data")
       THEN /\ disk' = cleanup_files(disk, r.file_path)
            /\ Step(t, [r EXCEPT !.pc = "return"])
       ELSE /\ UNCHANGED disk
            /\ Step(t, [r EXCEPT !.pc = "return",
                                 !.exc = "UnboundLocalError"])

\* what handle_size_choice holds outside process: the data snapshot, of
\* which the finally reads file_path, and target_size
Outer(r) ==
    [r EXCEPT !.format_choice = Absent, !.format_type = "", !.image = None]

\* From the entry to the first await.  The modular bot reads the session
\* data before the try, the single-file bot after the size is validated.
\* With a valid size and complete data, process runs up to cv2.imwrite
\* in send_processed_image, or to the error message of its except.  A failed
\* imwrite and a successful one continue alike: the statement after it raises.
HsCheck(c, m, extracted, encoded) ==
    LET r == NewTask(c, NoMessage, "handle_size_choice")
        \* data = await state.get_data(): file_path and format_choice are
        \* the keys read from it
        got == [r EXCEPT !.bound = {"data"},
                         !.file_path = data[c].file_path,
                         !.format_choice = data[c].format_choice]
        early == IF variant = "modular" THEN got ELSE r
        target_size == SizeOf(variant, Strip(m.text))
        ready == [got EXCEPT !.target_size = target_size,
                             !.format_type =
                                 handlers[got.format_choice].format_type]
        done == Process(variant, disk, ready, extracted)
    IN
    /\ Dispatched(c, m, "handle_size_choice")
    /\ IF m.kind # "text"
       THEN \* message.text is None: AttributeError, caught by the except
            /\ Suspend(FirstIdle, [Outer(early) EXCEPT
                                      !.pc = "hs_error_wait",
                                      !.exc = "AttributeError"])
            /\ UNCHANGED disk
       ELSE IF target_size = Absent
       THEN \* StopIteration: "Invalid size choice", then return
            /\ Suspend(FirstIdle, [Outer(early) EXCEPT
                                      !.pc = "hs_invalid_wait",
                                      !.target_size = Absent])
            /\ UNCHANGED disk
       ELSE IF got.file_path = None \/ got.format_choice = Absent
       THEN \* "Missing required processing data"
            /\ Suspend(FirstIdle, [Outer(got) EXCEPT
                                      !.pc = "hs_error_wait",
                                      !.target_size = target_size,
                                      !.exc = "ProcessingError"])
            /\ UNCHANGED disk
       ELSE IF done.pc = "pr_except"
       THEN \* process awaits message.answer(error_msg)
            /\ Suspend(FirstIdle, [Outer(done) EXCEPT
                                      !.pc = "pr_error_wait"])
            /\ UNCHANGED disk
       ELSE \* send_processed_image: cv2.imwrite(temp_path, image, ...)
            /\ disk' = Imwrite(disk, File(TempPath(done.format_type),
                                          done.image, done.format_type,
                                          done.file_path), encoded)
            /\ Step(FirstIdle, [done EXCEPT !.pc = "sp_open",
                                            !.written = (encoded = "written")])
    /\ UNCHANGED <<variant, fsm, data>>

\* a send_processed_image without its finally; C12 must tell it from SpOpen
SpOpenKeepsFile(t) ==
    /\ At(t, "sp_open")
    /\ Suspend(t, [Outer(task[t]) EXCEPT !.pc = "pr_error_wait",
                                         !.exc = "ProcessingError"])
    /\ UNCHANGED <<variant, fsm, data, disk>>

\* async with open(temp_path, "rb") as f: the built-in file object is no
\* asynchronous context manager, so the statement raises TypeError before
\* anything is read or sent (FileNotFoundError when imwrite left nothing).  The except turns it into ProcessingError, the
\* finally cleans temp_path up, and the except of process awaits
\* message.answer(error_msg).
SpOpen(t) ==
    LET r == task[t] IN
    /\ At(t, "sp_open")
    /\ disk' = cleanup_files(disk, TempPath(r.format_type))
    /\ Suspend(t, [Outer(r) EXCEPT !.pc = "pr_error_wait",
                                   !.exc = "ProcessingError"])
    /\ UNCHANGED <<variant, fsm, data>>

\* the error message of process was sent and process returns, the finally
\* of handle_size_choice runs; or the send raised and the exception reaches
\* the except of handle_size_choice
PrErrorSent(t) ==
    /\ Resumes(t, "pr_error_wait")
    /\ \/ /\ HsFinally(t, [Sent(task[t], "process_error") EXCEPT
                              !.exc = "none"])
          /\ UNCHANGED variant
       \/ /\ Suspend(t, [Lost(task[t], "process_error")
                           EXCEPT !.pc = "hs_error_wait"])
          /\ UNCHANGED <<variant, fsm, data, disk>>

\* "Invalid size choice" was sent and the handler returns: the return runs
\* the finally; or the send raised
HsInvalidSent(t) ==
    /\ Resumes(t, "hs_invalid_wait")
    /\ \/ /\ HsFinally(t, Sent(task[t], "reject"))
          /\ UNCHANGED variant
       \/ /\ Suspend(t, [Lost(task[t], "reject") EXCEPT !.pc = "hs_error_wait"])
          /\ UNCHANGED <<variant, fsm, data, disk>>

\* the "Processing Error" message of the except was sent, or its send raised;
\* the finally runs in both cases
HsErrorSent(t) ==
    /\ Resumes(t, "hs_error_wait")
    /\ \/ HsFinally(t, [Sent(task[t], "error") EXCEPT !.exc = "none"])
       \/ HsFinally(t, Lost(task[t], "error"))
    /\ UNCHANGED variant

-----------------------------------------------------------------------------
(* The bot                                                                 *)

Receive(c, m) ==
    \/ Command(c, m)
    \/ HiCheck(c, m)
    \/ HcCheck(c, m)
    \/ \E extracted \in BOOLEAN, encoded \in Encodes :
           HsCheck(c, m, extracted, encoded)

Resume(t) ==
    \/ CommandSent(t)
    \/ HiRejected(t) \/ HiWaitSent(t) \/ HiDownloaded(t)
    \/ HiMenuSent(t) \/ HiDeleted(t) \/ HiErrorSent(t)
    \/ HcRejected(t) \/ HcSizesSent(t) \/ HcErrorSent(t)
    \/ SpOpen(t) \/ PrErrorSent(t) \/ HsInvalidSent(t) \/ HsErrorSent(t)
    \/ Return(t)

\* one conversation, its updates handled concurrently
Next ==
    \/ \E m \in Messages : Receive("A", m)
    \/ \E t \in Tasks : Resume(t)

Spec == Init /\ [][Next]_vars

-----------------------------------------------------------------------------
(* Two conversations side by side.  Each user walks through the menu: a    *)
(* image of their own, an operation, a size.                               *)

\* the image the user of conversation c uploads: a photo, a JPEG document
ImageOf(c) ==
    IF c = "A"
    THEN UploadMessage([kind |-> "photo", file_id |-> "p1", mime |-> None,
                        content |-> <<2000, 3000, 3>>])
    ELSE UploadMessage([kind |-> "document", file_id |-> "d1",
                        mime |-> <<"image", "jpeg">>,
                        content |-> <<600, 800, 3>>])

\* what the user of conversation c types
TypedBy(c) ==
    IF c = "A" THEN {TextMessage(<<"1">>), TextMessage(<<"720p">>)}
    ELSE {TextMessage(<<"4">>), TextMessage(<<"original">>)}

NextTwo ==
    \/ \E c \in Conv : HiCheck(c, ImageOf(c))
    \/ \E c \in Conv : \E m \in TypedBy(c) : HcCheck(c, m)
    \/ \E c \in Conv : \E m \in TypedBy(c), extracted \in BOOLEAN :
           HsCheck(c, m, extracted, "written")
    \/ \E t \in Tasks :
           \/ HiWaitSent(t) \/ HiDownloaded(t) \/ HiMenuSent(t)
           \/ HiDeleted(t) \/ HiErrorSent(t)
           \/ HcRejected(t) \/ HcSizesSent(t) \/ HcErrorSent(t)
           \/ SpOpen(t) \/ PrErrorSent(t) \/ HsInvalidSent(t)
           \/ HsErrorSent(t) \/ Return(t)

SpecTwo == Init /\ [][NextTwo]_vars

-----------------------------------------------------------------------------
(* The pipeline over a range of sources.  Conversation "A" has uploaded a  *)
(* file and chosen an operation; the file decodes to any of Sources, or to *)
(* nothing; the user then picks a size.                                    *)

\* widths and heights beyond the small ones: around the size options, and
\* 49, the least n for which n * (1 / n) is below 1 in double arithmetic
SampleDims == {49, 720, 1280, 1920, 2000, 3000, 5000, 5001}

Dims == (1..MaxSmallDim) \cup SampleDims

\* decoded sources: grayscale, BGR and BGRA
Sources ==
    {<<h, w>> : h \in Dims, w \in Dims}
    \cup {<<h, w, c>> : h \in Dims, w \in Dims, c \in {3, 4}}

\* the labels of the size keyboard (the modular bot's; the single-file bot
\* has no "5000")
SizeTexts == {<<ImageSizeModular[n]>> : n \in DOMAIN ImageSizeModular}

UploadedPath == <<"p1", "jpg">>

InitImage ==
    /\ variant \in Variants
    /\ fsm = [c \in Conv |-> IF c = "A" THEN "selecting_size" ELSE "none"]
    /\ \E choice \in DOMAIN handlers :
          data = [c \in Conv |->
                    IF c = "A"
                    THEN [file_path |-> UploadedPath, format_choice |-> choice]
                    ELSE EmptyData]
    /\ \E image \in Sources \cup {None} :
          disk = {File(UploadedPath, image, "", None)}
    /\ task = [t \in Tasks |-> IdleTask]
    /\ running = NoTask

\* the user picks once
NextImage ==
    \/ /\ \A t \in Tasks : task[t].pc = "idle"
       /\ \E s \in SizeTexts, extracted \in BOOLEAN, encoded \in Encodes :
              HsCheck("A", TextMessage(s), extracted, encoded)
    \/ \E t \in Tasks :
           \/ SpOpen(t) \/ PrErrorSent(t) \/ HsInvalidSent(t)
           \/ HsErrorSent(t) \/ Return(t)

SpecImage == InitImage /\ [][NextImage]_vars

-----------------------------------------------------------------------------
(* One conversation that uploads again and again: a photo, a JPEG           *)
(* document, and menu tokens in between.                                   *)

\* the images the user uploads
Reuploads == {ImageOf(c) : c \in Conv}

NextUploads ==
    \/ \E m \in Reuploads : HiCheck("A", m)
    \/ \E m \in TypedBy("A") : HcCheck("A", m)
    \/ \E t \in Tasks :
           \/ HiWaitSent(t) \/ HiDownloaded(t) \/ HiMenuSent(t)
           \/ HiDeleted(t) \/ HiErrorSent(t)
           \/ HcRejected(t) \/ HcSizesSent(t) \/ HcErrorSent(t)
           \/ Return(t)

SpecUploads == Init /\ [][NextUploads]_vars

-----------------------------------------------------------------------------
(* One conversation whose updates arrive one at a time: the user waits for *)
(* the bot to finish with a message before sending the next.  The user     *)
(* uploads a photo or a document, picks PNG for the photo and background   *)
(* removal for the document, and asks for 720p.                            *)

\* the menu token the user picks when the session holds the file at path
ChoiceFor(path) == IF path = DownloadPath(ImageOf("A")) THEN "1" ELSE "4"

NextSerial ==
    \/ /\ \A t \in Tasks : task[t].pc = "idle"
       /\ \/ \E m \in Reuploads : HiCheck("A", m)
          \/ /\ data["A"].file_path # None
             /\ HcCheck("A", TextMessage(<<ChoiceFor(data["A"].file_path)>>))
          \/ HsCheck("A", TextMessage(<<"720p">>), TRUE, "written")
    \/ \E t \in Tasks :
           \/ HiWaitSent(t) \/ HiDownloaded(t) \/ HiMenuSent(t)
           \/ HiDeleted(t) \/ HiErrorSent(t)
           \/ HcSizesSent(t) \/ HcErrorSent(t)
           \/ SpOpen(t) \/ PrErrorSent(t) \/ HsErrorSent(t)
           \/ Return(t)

SpecSerial == Init /\ [][NextSerial]_vars

-----------------------------------------------------------------------------
(* Properties                                                              *)

\* C1: for a conversation in selecting_size, a text that is no size label
\* is rejected by handle_size_choice, which leaves the FSM state, the stored
\* file_path and format_choice, and the source file on disk as they were.
C1_InvalidSizeKeepsSession ==
    [][\A t \in Tasks :
          (/\ task'[t].handler = "handle_size_choice"
           /\ task'[t].target_size = Absent
           /\ task'[t] # task[t])
          => UNCHANGED <<fsm, data, disk>>]_vars

\* the handler has rejected a size and returned
C1_Rejected ==
    \E t \in Tasks :
        /\ task[t].pc = "return"
        /\ task[t].handler = "handle_size_choice"
        /\ task[t].target_size = Absent
        /\ "reject" \in task[t].sent

\* C2: after handle_size_choice returns from a valid size, whatever the
\* pipeline did (sent, failed to decode, failed to extract, failed to encode
\* or deliver), the session data is empty, the source file named by file_path
\* is gone, and the FSM state is the initial one.
C2_ValidSizeResets ==
    \A t \in Tasks :
        (/\ task[t].pc = "return"
         /\ task[t].handler = "handle_size_choice"
         /\ task[t].target_size \in Members(variant))
        => /\ data[task[t].conv] = EmptyData
           /\ fsm[task[t].conv] = "none"
           /\ ~Exists(disk, task[t].file_path)

\* a handler that encoded its output, failed to deliver it, and returned
C2_Returned ==
    \E t \in Tasks :
        /\ task[t].pc = "return"
        /\ task[t].handler = "handle_size_choice"
        /\ task[t].target_size \in Members(variant)
        /\ task[t].written
        /\ task[t].file_path = UploadedPath
        /\ disk = {}

C4_FitsTargetBox ==
    \A t \in Tasks :
        LET target_dims == get_dimensions(variant, task[t].target_size)
        IN  (task[t].pc = "sp_open" /\ target_dims # None)
            => /\ Width(task[t].image) <= target_dims[1]
               /\ Height(task[t].image) <= target_dims[2]

\* C5: a conversation that uploaded a decodable image, chose a valid
\* operation and a valid size, and saw no send fail, has received the
\* processed photo by the time the session is reset.
C5_PhotoDelivered ==
    \A t \in Tasks :
        (task[t].pc = "return" /\ task[t].written /\ task[t].lost = {})
        => "photo" \in task[t].sent

\* C6 as stated: in selecting_action a text that is not exactly one of the
\* four menu tokens is rejected, leaving FSM state and session data as they
\* were; a token is stored as the chosen operation, file_path stays, and the
\* state is selecting_size when the handler returns.
C6_ExactTokenOnly ==
    [][\A t \in Tasks :
          (task'[t].handler = "handle_conversion_choice" /\ task'[t] # task[t])
          => LET r == task'[t]
                 c == r.conv
             IN  /\ r.pc \in {"hc_reject_wait", "hc_sizes_wait"}
                    => (r.pc = "hc_sizes_wait"
                        <=> r.msg.text \in {<<x>> : x \in DOMAIN handlers})
                 /\ r.format_choice = Absent
                    => fsm'[c] = fsm[c] /\ data'[c] = data[c]
                 /\ r.format_choice # Absent
                    => /\ data'[c] =
                            [data[c] EXCEPT !.format_choice =
                                IF task[t].pc = "idle"
                                THEN r.format_choice ELSE @]
                       /\ r.pc = "return" => fsm'[c] = "selecting_size"]_vars

\* C6, amended: a text is judged after whitespace is stripped from its ends.
\* One that is then no menu token is rejected and FSM state and session
\* data stay as they were; a token is stored as the chosen operation with
\* file_path untouched, and the state becomes selecting_size once the size
\* keyboard has been sent; if that send fails the state stays as it was.
C6_StrippedTokenChosen ==
    [][\A t \in Tasks :
          (task'[t].handler = "handle_conversion_choice" /\ task'[t] # task[t])
          => LET r == task'[t]
                 c == r.conv
             IN  /\ r.pc \in {"hc_reject_wait", "hc_sizes_wait"}
                    => (r.pc = "hc_sizes_wait"
                        <=> Key(Strip(r.msg.text)) \in DOMAIN handlers)
                 /\ r.format_choice = Absent
                    => fsm'[c] = fsm[c] /\ data'[c] = data[c]
                 /\ r.format_choice # Absent
                    => /\ data'[c] =
                            [data[c] EXCEPT !.format_choice =
                                IF task[t].pc = "idle"
                                THEN r.format_choice ELSE @]
                       /\ task[t].pc = "idle"
                          => r.format_choice = Key(Strip(r.msg.text))
                       /\ fsm'[c] =
                            IF task[t].pc = "hc_sizes_wait" /\ "sizes" \in r.sent
                            THEN "selecting_size" ELSE fsm[c]]_vars

\* a token with whitespace around it has been accepted and stored
C6_PaddedTokenStored ==
    \E t \in Tasks :
        /\ task[t].pc = "hc_sizes_wait"
        /\ task[t].msg.text # Strip(task[t].msg.text)
        /\ data[task[t].conv].format_choice = task[t].format_choice
        /\ fsm[task[t].conv] = "selecting_action"

\* C7: a document whose declared content type is no image, or no supported
\* image format, is rejected with a message; nothing is downloaded, and the
\* conversation's FSM state and session data stay what they were.
C7_NonImageRejected ==
    [][\A t \in Tasks :
          (task'[t].handler = "handle_image" /\ task'[t] # task[t])
          => LET r == task'[t]
                 mime == r.msg.mime
             IN  (/\ r.msg.kind = "document"
                  /\ mime # None
                  /\ \/ mime[1] # "image"
                     \/ Lower(mime[2]) \notin SUPPORTED_FORMATS)
                 => /\ UNCHANGED <<fsm, data, disk>>
                    /\ r.pc \in {"hi_reject_wait", "hi_error_wait", "return"}
                    /\ r.pc = "hi_error_wait" => "reject" \in r.lost
                    /\ r.pc = "return" => "reject" \in r.sent \cup r.lost]_vars

\* a non-image document has been rejected and the handler has returned
C7_Rejected ==
    \E t \in Tasks :
        /\ task[t].pc = "return"
        /\ task[t].handler = "handle_image"
        /\ task[t].msg.kind = "document"
        /\ task[t].msg.mime = <<"application", "pdf">>
        /\ "reject" \in task[t].sent

\* C8: when download_file returns no path, handle_image sends the user an
\* error message, writes no file_path to the session, and leaves the FSM
\* state of the conversation as it was.
C8_DownloadFailureKeepsSession ==
    [][\A t \in Tasks :
          (/\ task'[t].handler = "handle_image"
           /\ task'[t] # task[t]
           /\ Bound(task'[t], "file_path")
           /\ task'[t].file_path = None)
          => LET r == task'[t]
             IN  /\ fsm'[r.conv] = fsm[r.conv]
                 /\ data'[r.conv] = data[r.conv]
                 /\ r.pc \in {"hi_delete_wait", "hi_error_wait", "return"}
                 /\ r.pc = "return" => "error" \in r.sent \cup r.lost]_vars

\* a download has failed in a fresh conversation and the handler has returned
C8_FailedAndReturned ==
    \E t \in Tasks :
        /\ task[t].pc = "return"
        /\ task[t].handler = "handle_image"
        /\ Bound(task[t], "file_path")
        /\ task[t].file_path = None
        /\ "error" \in task[t].sent
        /\ fsm[task[t].conv] = "none"
        /\ data[task[t].conv] = EmptyData

\* C9: in ImageConverter.process a 3-channel source converted to PNG comes
\* out with 4 channels, a 4-channel source converted to another format with
\* 3, and a 4-channel source converted to PNG stays at 4.
C9_ChannelNormalisation ==
    \A t \in Tasks :
        LET r == task[t]
            source == Decode(disk, r.file_path)
        IN  (/\ r.pc = "sp_open"
             /\ handlers[r.format_choice].class = "ImageConverter"
             /\ Len(source) = 3)
            => /\ (source[3] = 3 /\ r.format_type = "png")
                  => Channels(r.image) = 4
               /\ (source[3] = 4 /\ r.format_type # "png")
                  => Channels(r.image) = 3
               /\ (source[3] = 4 /\ r.format_type = "png")
                  => Channels(r.image) = 4

\* a 3-channel source has been converted to PNG
C9_AlphaAdded ==
    \E t \in Tasks :
        /\ task[t].pc = "sp_open"
        /\ handlers[task[t].format_choice].class = "ImageConverter"
        /\ task[t].format_type = "png"
        /\ Channels(Decode(disk, task[t].file_path)) = 3
        /\ Channels(task[t].image) = 4

\* C10: for every decodable source, grayscale ones included, and every
\* target format, the image ImageConverter.process hands to the resize and
\* encode steps has 3 or 4 channels.
C10_ThreeOrFourChannels ==
    \A t \in Tasks :
        (/\ task[t].pc = "sp_open"
         /\ handlers[task[t].format_choice].class = "ImageConverter")
        => Channels(task[t].image) \in {3, 4}

\* C11: when the chosen operation is remove-background (menu token "4"),
\* the output that send_processed_image encodes is a PNG, written to
\* temp_output.png, for every source and every size option; and nothing is
\* delivered in another format.
C11_RemoverOutputIsPng ==
    \A t \in Tasks :
        (task[t].pc = "sp_open" /\ task[t].format_choice = "4")
        => /\ task[t].format_type = "png"
           /\ \A f \in disk :
                 f.source = task[t].file_path
                 => f.format_type = "png" /\ f.path = <<"temp_output", "png">>

\* background removal has encoded its resized output
C11_RemoverEncoded ==
    \E t \in Tasks :
        /\ task[t].pc = "sp_open"
        /\ task[t].format_choice = "4"
        /\ task[t].target_size = "SMALL"
        /\ task[t].written
        /\ \E f \in disk : f.source = task[t].file_path /\ f.format_type = "png"

\* C12: once send_processed_image has returned or raised, the output temp
\* file it wrote is gone, whether imwrite succeeded, broke off or wrote
\* nothing: an output file is on disk only while a send_processed_image that
\* wrote to its path is between imwrite and its finally.
C12_NoOutputFileLeft ==
    \A f \in disk :
        f.format_type # ""
        => \E t \in Tasks :
              At(t, "sp_open") /\ f.path = TempPath(task[t].format_type)

\* send_processed_image wrote its output, raised, and left no file behind
C12_WrittenAndRemoved ==
    \E t \in Tasks :
        /\ task[t].pc = "pr_error_wait"
        /\ task[t].written
        /\ \A f \in disk : f.format_type = ""

\* C13: when the source file does not decode, or the foreground extraction
\* fails, process writes no output and sends the user an error message; and
\* when handle_size_choice returns without an encoded output, no photo was
\* sent, an error message was, the session is cleared, the source file is
\* deleted and the FSM state is the initial one.
C13_DecodeFailureResets ==
    /\ [][\A t \in Tasks :
             LET r == task'[t]
             IN  (/\ task[t].pc = "idle"
                  /\ r.handler = "handle_size_choice"
                  /\ r.target_size \in Members(variant)
                  /\ data[r.conv].file_path # None
                  /\ data[r.conv].format_choice # Absent
                  /\ \/ Decode(disk, data[r.conv].file_path) = None
                     \/ r.exc = "ExtractionError")
                 => /\ r.pc = "pr_error_wait"
                    /\ ~r.written
                    /\ disk' = disk]_vars
    /\ [](\A t \in Tasks :
             (/\ task[t].pc = "return"
              /\ task[t].handler = "handle_size_choice"
              /\ task[t].target_size \in Members(variant)
              /\ ~task[t].written)
             => /\ "photo" \notin task[t].sent
                /\ "process_error" \in task[t].sent \cup task[t].lost
                /\ data[task[t].conv] = EmptyData
                /\ fsm[task[t].conv] = "none"
                /\ ~Exists(disk, task[t].file_path)
                /\ \A f \in disk : f.format_type = "")

\* the source did not decode and process is sending its error message
C13_DecodeFailed ==
    \E t \in Tasks :
        /\ task[t].pc = "pr_error_wait"
        /\ task[t].exc \in {"ProcessingError", "UnidentifiedImageError"}
        /\ ~task[t].written
        /\ Decode(disk, task[t].file_path) = None
        /\ Exists(disk, task[t].file_path)

\* C14: for every size option but Original and every source, the output of
\* resize_image does not exceed the target on the constrained axis (the
\* width for a source wider than tall, the height otherwise), and the derived
\* dimension differs from the constrained one scaled by the source's aspect
\* ratio by less than 1.
C14_ConstrainedAxisAndAspect ==
    \A t \in Tasks :
        LET r == task[t]
            target_dims == get_dimensions(variant, r.target_size)
            source == Decode(disk, r.file_path)
            w == Width(source)
            h == Height(source)
            ow == Width(r.image)
            oh == Height(r.image)
        IN  (r.pc = "sp_open" /\ target_dims # None)
            => IF w > h
               THEN /\ ow <= target_dims[1]
                    /\ oh * w - ow * h < w
                    /\ ow * h - oh * w < w
               ELSE /\ oh <= target_dims[2]
                    /\ ow * h - oh * w < h
                    /\ oh * w - ow * h < h

\* C15: resize_image never upscales, and a source that is no larger than
\* the target on the constrained axis (or any source at Original) comes out
\* with the dimensions it had.
C15_NeverUpscales ==
    \A t \in Tasks :
        LET r == task[t]
            target_dims == get_dimensions(variant, r.target_size)
            source == Decode(disk, r.file_path)
            w == Width(source)
            h == Height(source)
            ow == Width(r.image)
            oh == Height(r.image)
            small == \/ target_dims = None
                     \/ w > h /\ w <= target_dims[1]
                     \/ w <= h /\ h <= target_dims[2]
        IN  r.pc = "sp_open"
            => /\ ow <= w
               /\ oh <= h
               /\ small => (ow = w /\ oh = h)

\* C16: while the pipeline of one conversation is under way (here: it has
\* decoded, resized and encoded, and is still inside send_processed_image),
\* a handler of another conversation that waits to be resumed can take its
\* step.
C16_OthersProgressDuringProcessing ==
    \A t \in Tasks, u \in Tasks :
        (/\ task[t].pc = "sp_open"
         /\ task[u].pc \notin {"idle", "return", "sp_open"}
         /\ task[u].conv # task[t].conv)
        => ENABLED Resume(u)

\* C17: within one conversation handlers run one after the other: while a
\* handler of the conversation is suspended at an await, no second update of
\* that conversation is being handled; and no source file goes through the
\* pipeline a second time.
C17_OneHandlerPerConversation ==
    \A t \in Tasks, u \in Tasks :
        (/\ t # u
         /\ task[t].pc \notin {"idle", "return", "sp_open"}
         /\ task[u].pc # "idle")
        => /\ task[t].conv # task[u].conv
           /\ ~(/\ task[t].written /\ task[u].written
                 /\ task[t].file_path = task[u].file_path)

\* C18: when a conversation in selecting_action or selecting_size gets a
\* new upload downloaded, the session names the new file and the file it
\* named before is no longer on disk.
C18_AbandonedFileReclaimed ==
    [][\A t \in Tasks :
          LET c == task[t].conv
              old == data[c].file_path
          IN  (/\ task[t].pc = "hi_download_wait"
               /\ task'[t].pc = "hi_menu_wait"
               /\ fsm[c] \in {"selecting_action", "selecting_size"})
              => /\ data'[c].file_path = task'[t].file_path
                 /\ (old # None /\ old # task'[t].file_path)
                    => ~Exists(disk', old)]_vars

\* C19: every step a handler takes for one conversation leaves the FSM
\* state and the session data (file_path, format_choice) of every other
\* conversation as they were; the storage holds one state and one data
\* record per conversation.
C19_SessionIsolation ==
    [][\A t \in Tasks :
          task'[t] # task[t]
          => LET own == IF task[t].pc = "idle" THEN task'[t].conv
                        ELSE task[t].conv
             IN  \A c \in Conv \ {own} :
                    fsm'[c] = fsm[c] /\ data'[c] = data[c]]_vars

\* a handle_size_choice of one conversation has cleared its session and
\* returned while the other conversation is mid-flow with its file and choice
C19_OneClearedOtherKept ==
    \E t \in Tasks, c \in Conv :
        /\ task[t].pc = "return"
        /\ task[t].handler = "handle_size_choice"
        /\ task[t].conv # c
        /\ data[task[t].conv] = EmptyData
        /\ fsm[c] = "selecting_size"
        /\ data[c].file_path # None
        /\ data[c].format_choice # Absent

\* C20: the size a text is accepted as in selecting_size is one of Original,
\* Small, Medium and Large, the size keyboard offers exactly these four, and
\* Small, Medium and Large carry 1280x720, 1920x1080 and 2560x1440.
C20_FourSizeOptions ==
    \A t \in Tasks :
        (/\ task[t].handler = "handle_size_choice"
         /\ task[t].target_size \notin {Unbound, Absent})
        => /\ task[t].target_size \in {"ORIGINAL", "SMALL", "MEDIUM", "LARGE"}
           /\ Members(variant) = {"ORIGINAL", "SMALL", "MEDIUM", "LARGE"}
           /\ get_dimensions(variant, "ORIGINAL") = None
           /\ get_dimensions(variant, "SMALL") = <<1280, 720>>
           /\ get_dimensions(variant, "MEDIUM") = <<1920, 1080>>
           /\ get_dimensions(variant, "LARGE") = <<2560, 1440>>

\* C21: get_dimensions gives a pair of positive numbers for every member of
\* ImageSize but ORIGINAL and nothing for ORIGINAL; and the image that
\* handle_size_choice sends on for ORIGINAL has the height and width of the
\* source.
C21_DimensionsTotal ==
    /\ \A n \in Members(variant) :
          LET dims == get_dimensions(variant, n)
          IN  IF n = "ORIGINAL" THEN dims = None
              ELSE dims # None /\ dims[1] > 0 /\ dims[2] > 0
    /\ \A t \in Tasks :
          (task[t].pc = "sp_open" /\ task[t].target_size = "ORIGINAL")
          => LET source == Decode(disk, task[t].file_path)
             IN  /\ Width(task[t].image) = Width(source)
                 /\ Height(task[t].image) = Height(source)

\* a source larger than every target has gone through at ORIGINAL
C21_OriginalKept ==
    \E t \in Tasks :
        /\ task[t].pc = "sp_open"
        /\ task[t].target_size = "ORIGINAL"
        /\ Width(task[t].image) = 5001
        /\ Height(task[t].image) = 3000

\* C22: for every source and every size option but Original, the output of
\* resize_image is: for width >= height, min(width, target width) wide and
\* floor(that * height / width) high; otherwise min(height, target height)
\* high and floor(that * width / height) wide.
C22_SpecifiedAlgorithm ==
    \A t \in Tasks :
        LET r == task[t]
            target_dims == get_dimensions(variant, r.target_size)
            source == Decode(disk, r.file_path)
            w == Width(source)
            h == Height(source)
            cw == Min(w, target_dims[1])
            ch == Min(h, target_dims[2])
        IN  (r.pc = "sp_open" /\ target_dims # None)
            => IF w >= h
               THEN /\ Width(r.image) = cw
                    /\ Height(r.image) = (cw * h) \div w
               ELSE /\ Height(r.image) = ch
                    /\ Width(r.image) = (ch * w) \div h

\* C23: a conversation in selecting_action has a file_path in its session,
\* one in selecting_size has a file_path and a format_choice that is a menu
\* token, and handle_size_choice never raises "Missing required processing
\* data".
C23_StateImpliesData ==
    /\ \A c \in Conv :
          /\ fsm[c] = "selecting_action" => data[c].file_path # None
          /\ fsm[c] = "selecting_size"
             => /\ data[c].file_path # None
                /\ data[c].format_choice \in DOMAIN handlers
    /\ \A t \in Tasks :
          ~(/\ task[t].pc = "hs_error_wait"
            /\ task[t].exc = "ProcessingError"
            /\ ~task[t].written)

\* C24: the pipeline that a size token starts runs on the file uploaded
\* last with the operation chosen after that upload.  The user picks "1"
\* only while the session holds the photo and "4" only while it holds the
\* document, so a pipeline on the photo runs with "1" and one on the
\* document with "4".
C24_ChoiceBelongsToFile ==
    \A t \in Tasks :
        task[t].pc = "sp_open"
        => task[t].format_choice = ChoiceFor(task[t].file_path)

\* C25: a conversation in the initial FSM state with no handler in flight
\* has empty session data, and no downloaded source file is left on disk.
C25_InitialStateIsClean ==
    (fsm["A"] = "none" /\ \A t \in Tasks : task[t].pc = "idle")
    => /\ data["A"] = EmptyData
       /\ \A f \in disk : f.format_type # ""

\* C26: for every decodable source and every size option but Original,
\* both dimensions that resize_image asks cv2.resize for are at least 1.
C26_NoZeroDimension ==
    \A t \in Tasks :
        LET r == task[t]
            target_dims == get_dimensions(variant, r.target_size)
            source == Decode(disk, r.file_path)
            dsize == NewDims(Width(source), Height(source),
                             target_dims[1], target_dims[2])
        IN  (/\ r.pc \in {"sp_open", "pr_error_wait"}
             /\ r.exc \in {"none", "cv2.error", "ProcessingError"}
             /\ target_dims # None
             /\ source # None
             /\ Len(source) = 3)
            => dsize[1] >= 1 /\ dsize[2] >= 1

=============================================================================
